---- MODULE Spec2Model ----
(***************************************************************************)
(* Model of libbtrfsutil/python/module.c: the argument converter          *)
(* path_converter (with its helper fd_converter) and path_cleanup, which   *)
(* turn a Python object into a struct path_arg {allow_fd, object, cleanup, *)
(* path, length, fd}.                                                      *)
(*                                                                         *)
(* Python objects are identified by a slot name; rc maps each slot to its  *)
(* reference count (0 = not allocated / freed).  Machine integers are      *)
(* scaled: an int has IntBits bits and a long has LongBits bits.           *)
(***************************************************************************)
EXTENDS Integers, Sequences, FiniteSets, TLC

\* ------------------------------------------------------------------ bounds
MaxLen == 3
MaxTextLen == 2
IntBits == 3
LongBits == 5
MaxRequests == 2

INT_MAX == 2^(IntBits - 1) - 1
LONG_MAX == 2^(LongBits - 1) - 1
LONG_MIN == -(2^(LongBits - 1))

Py_CLEANUP_SUPPORTED == 131072

\* ------------------------------------------------------- values and objects
NULL == "NULL"
Slots == {"target", "func", "res", "enc"}

\* Code points of the text model: NUL, 'a', U+00E9 (two bytes in UTF-8) and
\* the lone surrogate U+D800 (not encodable by the filesystem encoding).
Chars == {0, 97, 233, 55296}
\* Byte values a caller puts in a bytes object.
ByteVals == {0, 97, 195}

RECURSIVE SeqsUpTo(_, _)
SeqsUpTo(S, n) ==
    IF n = 0 THEN {<<>>}
    ELSE LET shorter == SeqsUpTo(S, n - 1)
         IN  shorter \cup {Append(s, x) : s \in {t \in shorter : Len(t) = n - 1}, x \in S}

NoErr == [kind |-> "None", msg |-> "", tp |-> ""]
Exc(k, m, t) == [kind |-> k, msg |-> m, tp |-> t]

\* A Python object as the converter sees it: its type name, its text (str),
\* its bytes (bytes), and whether it has __index__ ("none", "value": returns
\* ival, "raise": raises).
Obj(t, txt, dat, idx, iv) == [type |-> t, text |-> txt, data |-> dat, index |-> idx, ival |-> iv]
StrObj(txt) == Obj("str", txt, <<>>, "none", 0)
BytesObj(dat) == Obj("bytes", <<>>, dat, "none", 0)
IntObj(x) == Obj("int", <<>>, <<>>, "value", x)
NoneObj == Obj("NoneType", <<>>, <<>>, "none", 0)

IntVals == (LONG_MIN - 2) .. (LONG_MAX + 2)
EdgeInts == {LONG_MIN - 1, -1, 0, INT_MAX, INT_MAX + 1, LONG_MAX + 1}

StrObjs == {StrObj(t) : t \in SeqsUpTo(Chars, MaxTextLen)}
BytesObjs == {BytesObj(d) : d \in SeqsUpTo(ByteVals, MaxLen)}
IntObjs == {IntObj(x) : x \in IntVals}
\* Objects of another type, with or without __index__.
OtherObjs == {NoneObj, Obj("object", <<>>, <<>>, "raise", 0)}
                \cup {Obj("object", <<>>, <<>>, "value", x) : x \in EdgeInts}

\* What __fspath__ can hand back.
HookResults == {StrObj(t) : t \in SeqsUpTo(Chars, 1)}
                 \cup {BytesObj(d) : d \in SeqsUpTo(ByteVals, 2)}
                 \cup {IntObj(0), IntObj(-1), NoneObj}
HookErrs == {Exc("RuntimeError", "hook", ""), Exc("TypeError", "hook", "")}
IndexErr == Exc("TypeError", "__index__", "")

\* A target is an object plus its __fspath__ behaviour: "none" (no hook),
\* "returns" (res, already referenced resrc times elsewhere) or "raise" (exc).
Tgt(o, f, r, n, e) == [obj |-> o, fspath |-> f, res |-> r, resrc |-> n, exc |-> e]
PlainTargets == {Tgt(o, "none", NoneObj, 0, NoErr) : o \in StrObjs \cup BytesObjs \cup IntObjs \cup OtherObjs}
HookTargets ==
    {Tgt(o, "returns", r, n, NoErr) : o \in OtherObjs, r \in HookResults, n \in {0, 1}}
      \cup {Tgt(o, "raise", NoneObj, 0, e) : o \in OtherObjs, e \in HookErrs}
Targets == PlainTargets \cup HookTargets
NoTarget == Tgt(NoneObj, "none", NoneObj, 0, NoErr)

\* ------------------------------------------------------- CPython primitives
PyIndex_Check(o) == o.index # "none"
PyBytes_Check(o) == o.type = "bytes"
PyUnicode_Check(o) == o.type = "str"

\* strlen of the buffer of a bytes object (the buffer is NUL-terminated).
strlen(data) ==
    IF \E i \in 1..Len(data) : data[i] = 0
    THEN (CHOOSE i \in 1..Len(data) : data[i] = 0 /\ \A j \in 1..(i - 1) : data[j] # 0) - 1
    ELSE Len(data)

\* UTF-8 encoding of one code point of Chars; <<-1>> marks "not encodable".
EncodeChar(c) ==
    IF c < 128 THEN <<c>>
    ELSE IF c = 233 THEN <<195, 169>>
    ELSE <<-1>>

RECURSIVE EncodeFSDefault(_)
EncodeFSDefault(text) ==
    IF text = <<>> THEN <<>> ELSE EncodeChar(Head(text)) \o EncodeFSDefault(Tail(text))

\* PyUnicode_FSConverter on a str: encode, then refuse an embedded null byte.
PyUnicode_FSConverter(o) ==
    LET out == EncodeFSDefault(o.text)
    IN  IF \E i \in 1..Len(out) : out[i] = -1
        THEN [ok |-> FALSE, data |-> <<>>, err |-> Exc("UnicodeEncodeError", "surrogates not allowed", "")]
        ELSE IF Len(out) # strlen(out)
        THEN [ok |-> FALSE, data |-> <<>>, err |-> Exc("ValueError", "embedded null byte", "")]
        ELSE [ok |-> TRUE, data |-> out, err |-> NoErr]

\* PyLong_AsLongAndOverflow: the value as a long, or -1 with overflow = +1/-1,
\* or -1 with an exception when __index__ raises.
PyLong_AsLongAndOverflow(o) ==
    IF o.index = "raise" THEN [val |-> -1, overflow |-> 0, err |-> IndexErr]
    ELSE IF o.ival > LONG_MAX THEN [val |-> -1, overflow |-> 1, err |-> NoErr]
    ELSE IF o.ival < LONG_MIN THEN [val |-> -1, overflow |-> -1, err |-> NoErr]
    ELSE [val |-> o.ival, overflow |-> 0, err |-> NoErr]

Py_INCREF(rc, s) == [rc EXCEPT ![s] = @ + 1]
Py_XDECREF(rc, s) == IF s = NULL THEN rc ELSE [rc EXCEPT ![s] = @ - 1]

\* ------------------------------------------------------------ fd_converter
\* Result of fd_converter: ok = its return value, fd = what it stored in *p
\* (meaningful only when ok), err = the exception it left set.
FdFail(e) == [ok |-> FALSE, fd |-> -1, err |-> e]

fd_converter_overflow_merged(o) ==
    LET r == PyLong_AsLongAndOverflow(o)
    IN  IF r.val = -1 /\ r.err.kind # "None" THEN FdFail(r.err)
        ELSE IF r.overflow # 0 \/ r.val > INT_MAX
        THEN FdFail(Exc("OverflowError", "fd is greater than maximum", ""))
        ELSE IF r.val < 0 THEN FdFail(Exc("ValueError", "fd is negative", ""))
        ELSE [ok |-> TRUE, fd |-> r.val, err |-> NoErr]

fd_converter(o) ==
    LET r == PyLong_AsLongAndOverflow(o)
    IN  IF r.val = -1 /\ r.err.kind # "None" THEN FdFail(r.err)
        ELSE IF r.overflow > 0 \/ r.val > INT_MAX
        THEN FdFail(Exc("OverflowError", "fd is greater than maximum", ""))
        ELSE IF r.overflow < 0 \/ r.val < 0
        THEN FdFail(Exc("ValueError", "fd is negative", ""))
        ELSE [ok |-> TRUE, fd |-> r.val, err |-> NoErr]

\* ---------------------------------------------------------- path_converter
\* The converter's working state: the handle h, the reference counts rc, the
\* contents of the objects it obtained (res: the hook's result, enc: the
\* encoded bytes), the pending exception err, the return value ret and
\* whether __fspath__ was called.

err_format_fixed_list(allow_fd, tp_name) ==
    Exc("TypeError", "string, bytes, os.PathLike, or integer", tp_name)

\* PyErr_Format at err_format: the accepted shapes depend on allow_fd.
err_format(allow_fd, tp_name) ==
    Exc("TypeError",
        IF allow_fd THEN "string, bytes, os.PathLike, or integer"
        ELSE "string, bytes, or os.PathLike",
        tp_name)

err_exit_leaks_bytes(st, o, bytes) ==
    [st EXCEPT !.rc = Py_XDECREF(@, o), !.ret = 0]

err_exit_reports_success(st, o, bytes) ==
    [st EXCEPT !.rc = Py_XDECREF(Py_XDECREF(@, o), bytes), !.ret = Py_CLEANUP_SUPPORTED]

\* err: Py_XDECREF(o); Py_XDECREF(bytes); return 0.
err_exit(st, o, bytes) ==
    [st EXCEPT !.rc = Py_XDECREF(Py_XDECREF(@, o), bytes), !.ret = 0]

hook_failed_as_type_error(st, e) ==
    [st EXCEPT !.err = err_format(st.h.allow_fd, "NoneType"), !.ret = 0]

\* The call of __fspath__ returned NULL: return 0 with the hook's exception.
hook_failed(st, e) == [st EXCEPT !.err = e, !.ret = 0]

\* out: record length and object, report success.
out_exit(st, o, length) ==
    [st EXCEPT !.h.length = length, !.h.object = o, !.ret = Py_CLEANUP_SUPPORTED]

store_path_always_decref(st, o, bytes) ==
    [st EXCEPT !.h.path = bytes, !.h.fd = -1, !.rc = Py_XDECREF(@, bytes)]

\* path->path = tmp; the extra reference on bytes is dropped when bytes is o
\* itself, and handed to path->cleanup otherwise; path->fd = -1.
store_path(st, o, bytes) ==
    IF bytes = o
    THEN [st EXCEPT !.h.path = bytes, !.h.fd = -1, !.rc = Py_XDECREF(@, bytes)]
    ELSE [st EXCEPT !.h.path = bytes, !.h.fd = -1, !.h.cleanup = bytes]

store_fd_keeps_path(st, fd) == [st EXCEPT !.h.fd = fd]

\* The index branch after fd_converter succeeded: *fd is stored, path = NULL.
store_fd(st, fd) == [st EXCEPT !.h.fd = fd, !.h.path = NULL]

\* PyErr_SetString(PyExc_TypeError, "path has embedded nul character")
EmbeddedNul == Exc("TypeError", "path has embedded nul character", "")

\* Lines 82-120: o is the slot of the object being converted, obj its value.
convert(st, o, obj, is_index, is_bytes, is_unicode) ==
    IF is_unicode THEN
        LET c == PyUnicode_FSConverter(obj)
        IN  IF ~c.ok THEN err_exit([st EXCEPT !.err = c.err], o, NULL)
            ELSE LET st1 == [st EXCEPT !.enc = c.data, !.rc = Py_INCREF(@, "enc")]
                     length == Len(c.data)
                 IN  IF length # strlen(c.data)
                     THEN err_exit([st1 EXCEPT !.err = EmbeddedNul], o, "enc")
                     ELSE out_exit(store_path(st1, o, "enc"), o, length)
    ELSE IF is_bytes THEN
        LET st1 == [st EXCEPT !.rc = Py_INCREF(@, o)]
            length == Len(obj.data)
        IN  IF length # strlen(obj.data)
            THEN err_exit([st1 EXCEPT !.err = EmbeddedNul], o, o)
            ELSE out_exit(store_path(st1, o, o), o, length)
    ELSE IF is_index THEN
        LET f == fd_converter(obj)
        IN  IF ~f.ok THEN err_exit([st EXCEPT !.err = f.err], o, NULL)
            ELSE out_exit(store_fd(st, f.fd), o, 0)
    ELSE err_exit([st EXCEPT !.err = err_format(st.h.allow_fd, obj.type)], o, NULL)

\* is_index = path->allow_fd && PyIndex_Check(o)
is_index_of(allow_fd, obj) == allow_fd /\ PyIndex_Check(obj)

\* path_converter(o, p) for o != NULL.  t describes o; h and rc are the handle
\* and the reference counts at entry.
path_converter(t, h, rc) ==
    LET st0 == [h |-> [h EXCEPT !.object = NULL, !.cleanup = NULL, !.fd = -1],
                rc |-> Py_INCREF(rc, "target"),
                res |-> NoneObj, enc |-> <<>>,
                err |-> NoErr, ret |-> 0, hooked |-> FALSE]
        is_index == is_index_of(h.allow_fd, t.obj)
        is_bytes == PyBytes_Check(t.obj)
        is_unicode == PyUnicode_Check(t.obj)
    IN  IF ~is_index /\ ~is_bytes /\ ~is_unicode
        THEN IF t.fspath = "none"
             THEN \* _PyObject_LookupSpecial found no hook: goto err_format
                  err_exit([st0 EXCEPT !.err = err_format(h.allow_fd, t.obj.type)], "target", NULL)
             ELSE \* func is a new bound method (it references o); Py_DECREF(o);
                  \* the call; Py_DECREF(func) frees it and its reference to o.
                  LET looked == Py_INCREF(Py_INCREF(st0.rc, "func"), "target")
                      dropped == Py_XDECREF(looked, "target")
                      called == IF t.fspath = "returns" THEN Py_INCREF(dropped, "res") ELSE dropped
                      after == Py_XDECREF(Py_XDECREF(called, "func"), "target")
                      st1 == [st0 EXCEPT !.rc = after, !.hooked = TRUE]
                  IN  IF t.fspath = "raise"
                      THEN hook_failed(st1, t.exc)
                      ELSE convert([st1 EXCEPT !.res = t.res], "res", t.res, FALSE,
                                   PyBytes_Check(t.res), PyUnicode_Check(t.res))
        ELSE convert(st0, "target", t.obj, is_index, is_bytes, is_unicode)

path_cleanup_closes_fd(h, rc, fds) ==
    [h |-> [h EXCEPT !.object = NULL, !.cleanup = NULL],
     rc |-> Py_XDECREF(Py_XDECREF(rc, h.object), h.cleanup),
     fds |-> fds \ {h.fd}]

\* path_cleanup: Py_CLEAR(path->object); Py_CLEAR(path->cleanup).  fds is the
\* caller's set of open descriptors, which the function does not touch.
path_cleanup(h, rc, fds) ==
    [h |-> [h EXCEPT !.object = NULL, !.cleanup = NULL],
     rc |-> Py_XDECREF(Py_XDECREF(rc, h.object), h.cleanup),
     fds |-> fds]

\* path_converter(NULL, p): the cleanup call of the argument parser.
path_converter_NULL(h, rc, fds) ==
    [c |-> path_cleanup(h, rc, fds), ret |-> 1]

\* ------------------------------------------------------------ state machine
VARIABLES
    pc,        \* "idle", "resolved", "failed", "issued", "cleaned"
    target,    \* the object handed to the converter in the current call
    h,         \* the struct path_arg
    rc,        \* reference count of each slot
    rcBefore,  \* the reference counts when the current call started
    enc,       \* contents of the bytes object made by the text conversion
    err,       \* the pending Python exception
    ret,       \* the converter's last return value
    hooked,    \* whether the current call invoked __fspath__
    openFds,   \* the caller's open descriptors
    requests   \* control requests issued so far

vars == <<pc, target, h, rc, rcBefore, enc, err, ret, hooked, openFds, requests>>

NoRefs == [s \in Slots |-> 0]

Init ==
    /\ pc = "idle"
    /\ target = NoTarget
    /\ h \in {[allow_fd |-> a, object |-> NULL, cleanup |-> NULL, path |-> NULL,
               length |-> 0, fd |-> 0] : a \in BOOLEAN}
    /\ rc = NoRefs
    /\ rcBefore = NoRefs
    /\ enc = <<>>
    /\ err = NoErr
    /\ ret = 0
    /\ hooked = FALSE
    /\ openFds \in {{0, 1, 2}, {0, 1, 2, INT_MAX}}
    /\ requests = 0

\* The argument parser calls path_converter(o, &path).  The caller holds one
\* reference to o; the hook's result may already be referenced elsewhere.
Convert(t) ==
    /\ pc = "idle"
    /\ LET rc0 == [NoRefs EXCEPT !["target"] = 1, !["res"] = t.resrc]
           r == path_converter(t, h, rc0)
       IN  /\ target' = t
           /\ rcBefore' = rc0
           /\ h' = r.h
           /\ rc' = r.rc
           /\ enc' = r.enc
           /\ err' = r.err
           /\ ret' = r.ret
           /\ hooked' = r.hooked
           /\ pc' = IF r.ret # 0 THEN "resolved" ELSE "failed"
    /\ UNCHANGED <<openFds, requests>>

\* sync / start_sync / wait_sync issue their control request on the resolved
\* handle; they return NULL without it when argument parsing failed.
IssueRequest ==
    /\ pc = "resolved"
    /\ requests < MaxRequests
    /\ requests' = requests + 1
    /\ pc' = "issued"
    /\ UNCHANGED <<target, h, rc, rcBefore, enc, err, ret, hooked, openFds>>

\* The caller's path_cleanup(&path).
Cleanup ==
    /\ pc \in {"resolved", "issued"}
    /\ LET c == path_cleanup(h, rc, openFds)
       IN  /\ h' = c.h
           /\ rc' = c.rc
           /\ openFds' = c.fds
    /\ pc' = "cleaned"
    /\ UNCHANGED <<target, rcBefore, enc, err, ret, hooked, requests>>

\* The argument parser's cleanup call path_converter(NULL, &path), made when
\* a later argument fails to convert.
ConvertNull ==
    /\ pc = "resolved"
    /\ LET r == path_converter_NULL(h, rc, openFds)
       IN  /\ h' = r.c.h
           /\ rc' = r.c.rc
           /\ openFds' = r.c.fds
           /\ ret' = r.ret
    /\ pc' = "cleaned"
    /\ UNCHANGED <<target, rcBefore, enc, err, hooked, requests>>

\* The call is over: the exception, if any, has been reported.  The struct
\* keeps whatever path, length and fd were last written to it.
Return ==
    /\ pc \in {"failed", "cleaned"}
    /\ pc' = "idle"
    /\ target' = NoTarget
    /\ rc' = NoRefs
    /\ rcBefore' = NoRefs
    /\ enc' = <<>>
    /\ err' = NoErr
    /\ ret' = 0
    /\ hooked' = FALSE
    /\ UNCHANGED <<h, openFds, requests>>

Next ==
    \/ \E t \in Targets : Convert(t)
    \/ IssueRequest
    \/ Cleanup
    \/ ConvertNull
    \/ Return

Spec == Init /\ [][Next]_vars

\* ------------------------------------------------------------------ claims
Called == pc \in {"resolved", "failed"}
Succeeded == pc \in {"resolved", "issued"}
ExpectedShapes(allow_fd) ==
    IF allow_fd THEN "string, bytes, os.PathLike, or integer"
    ELSE "string, bytes, or os.PathLike"

\* The byte sequence of a text or bytes object after any text-to-bytes
\* conversion, and whether that conversion is possible.
BytesOf(o) == IF o.type = "bytes" THEN o.data ELSE EncodeFSDefault(o.text)
Encodable(o) == \A i \in 1..Len(BytesOf(o)) : BytesOf(o)[i] # -1
HasZero(d) == \E i \in 1..Len(d) : d[i] = 0

\* C1: a text or bytes target whose byte sequence has no zero byte resolves
\* as a path; one whose byte sequence has a zero byte anywhere fails with
\* InvalidArgument (ValueError).
C1_ZeroByteIsInvalidArgument ==
    (Called /\ target.obj.type \in {"str", "bytes"} /\ Encodable(target.obj)) =>
        IF HasZero(BytesOf(target.obj))
        THEN pc = "failed" /\ err.kind = "ValueError"
        ELSE pc = "resolved" /\ err = NoErr /\ h.path # NULL /\ h.fd = -1

\* C2: with allow_fd, an integer target x resolves as descriptor x when
\* 0 <= x <= INT_MAX, fails with OverflowError when x > INT_MAX and with
\* ValueError when x < 0, also beyond the range of a long.
C2_IntegerRange ==
    (Called /\ h.allow_fd /\ target.obj.index = "value") =>
        LET x == target.obj.ival
        IN  /\ (0 <= x /\ x <= INT_MAX) =>
                 (pc = "resolved" /\ err = NoErr /\ h.fd = x /\ h.path = NULL)
            /\ x > INT_MAX => (pc = "failed" /\ err.kind = "OverflowError")
            /\ x < 0 => (pc = "failed" /\ err.kind = "ValueError")

C2_Witness ==
    /\ pc = "failed" /\ h.allow_fd /\ target.obj.type = "int"
    /\ target.obj.ival < LONG_MIN /\ err.kind = "ValueError"

\* C3: with allow_fd, a target that is neither text nor bytes, has a
\* conversion hook returning a valid path and is also index-capable has its
\* hook invoked and resolves as a path, not as a descriptor.
C3_HookBeforeInteger ==
    (/\ Called /\ h.allow_fd
     /\ target.obj.type \notin {"str", "bytes"}
     /\ target.obj.index = "value"
     /\ target.fspath = "returns"
     /\ target.res.type \in {"str", "bytes"}
     /\ Encodable(target.res) /\ ~HasZero(BytesOf(target.res)))
    => (hooked /\ pc = "resolved" /\ h.path # NULL /\ h.fd = -1)

\* C4: when the conversion hook raises, the converter fails and the pending
\* error is exactly the hook's error.
C4_HookErrorPropagates ==
    (Called /\ hooked /\ target.fspath = "raise") =>
        (pc = "failed" /\ ret = 0 /\ err = target.exc)

C4_Witness ==
    /\ pc = "failed" /\ hooked /\ target.fspath = "raise"
    /\ target.exc.kind = "RuntimeError" /\ err.kind = "RuntimeError"

\* A target of no accepted shape for a call: not text, not bytes, not an
\* integer the call accepts, and with no hook or a hook whose result is
\* neither text nor bytes.
Unsupported(t, allow_fd) ==
    /\ t.obj.type \notin {"str", "bytes"}
    /\ ~(allow_fd /\ t.obj.index # "none")
    /\ \/ t.fspath = "none"
       \/ t.fspath = "returns" /\ t.res.type \notin {"str", "bytes"}

\* C5: every unsupported target is rejected with a TypeError naming the
\* shapes accepted for that call; it is never resolved as a descriptor.
C5_UnsupportedShape ==
    (Called /\ Unsupported(target, h.allow_fd)) =>
        /\ pc = "failed"
        /\ err.kind = "TypeError"
        /\ err.msg = ExpectedShapes(h.allow_fd)
        /\ h.fd = -1

C5_Witness ==
    /\ pc = "failed" /\ h.allow_fd /\ hooked /\ target.res.type = "int"
    /\ err.kind = "TypeError" /\ err.tp = "int"

\* C6: no step of the converter or of the cleanup changes the caller's set
\* of open descriptors.
C6_DescriptorsNeverClosed == [][openFds' = openFds]_vars

C6_Witness ==
    /\ pc = "cleaned" /\ target.obj.type = "int" /\ h.fd = target.obj.ival
    /\ h.fd \in openFds /\ h.object = NULL

\* C7: after a failing resolution the handle holds no reference and every
\* reference count is what it was before the call; after a successful
\* resolution and one cleanup every reference count is again what it was.
C7_ReferencesReleased ==
    /\ pc = "failed" => (h.object = NULL /\ h.cleanup = NULL /\ rc = rcBefore)
    /\ pc = "cleaned" => (h.object = NULL /\ h.cleanup = NULL /\ rc = rcBefore)

C7_Witness ==
    /\ pc = "failed" /\ hooked /\ target.res.type = "bytes" /\ target.resrc = 1
    /\ err = EmbeddedNul /\ rc = rcBefore

\* C8: after a successful resolution exactly one variant is populated:
\* path set and fd = -1, or path NULL and fd >= 0.
C8_ExactlyOneVariant ==
    Succeeded => \/ h.path # NULL /\ h.fd = -1
                 \/ h.path = NULL /\ h.fd >= 0

C8_Witness ==
    /\ pc = "resolved" /\ h.path = NULL /\ h.fd = INT_MAX /\ target.obj.type = "int"

\* C9: the converter issues no request and opens no descriptor, and a
\* request is issued only after a resolution that reported no failure.
C9_FailureBeforeSystemInteraction ==
    [][/\ pc = "idle" => (requests' = requests /\ openFds' = openFds)
       /\ requests' # requests => (pc = "resolved" /\ ret # 0 /\ err = NoErr)]_vars

C9_Witness ==
    /\ pc = "failed" /\ target.obj.type = "bytes" /\ HasZero(target.obj.data)
    /\ ret = 0 /\ requests = 0

\* The buffer of the bytes object in a slot.
Buffer(s) ==
    IF s = "target" THEN target.obj.data
    ELSE IF s = "res" THEN target.res.data
    ELSE enc

\* C10: between a successful path resolution and the cleanup, the buffer
\* path points to is kept alive by a reference of the handle: cleanup when
\* the bytes come from a text conversion, object when the target or the
\* hook's result is a bytes object; length is the buffer's byte length.
C10_PathBufferAlive ==
    (Succeeded /\ h.path # NULL) =>
        /\ rc[h.path] > rcBefore[h.path]
        /\ h.length = Len(Buffer(h.path))
        /\ target.obj.type = "str" => (h.path = "enc" /\ h.cleanup = "enc" /\ h.object = "target")
        /\ target.obj.type = "bytes" => (h.path = "target" /\ h.object = "target" /\ h.cleanup = NULL)
        /\ (hooked /\ target.res.type = "bytes") =>
               (h.path = "res" /\ h.object = "res" /\ h.cleanup = NULL)
        /\ (hooked /\ target.res.type = "str") =>
               (h.path = "enc" /\ h.cleanup = "enc" /\ h.object = "res")

C10_Witness ==
    /\ pc = "issued" /\ target.obj.type = "str" /\ h.path = "enc"
    /\ h.cleanup = "enc" /\ rc["enc"] = 1 /\ h.length = 2 /\ Len(target.obj.text) = 1
====
